---- MODULE Spec2Model ----
(***************************************************************************)
(* Model of the two programs of the repository:                            *)
(*   city_police_coverage_simulation/city_skylines_bfs_kdtree.py           *)
(*     nearest-station Chebyshev distance by brute force, by multi-source  *)
(*     BFS and by a KD-tree query, and the covering radius (their maximum  *)
(*     over the grid);                                                     *)
(*   mars_railway_building_simulation/surviving_mars-prim.py               *)
(*     Prim's algorithm over a random symmetric edge map.                  *)
(* Three specifications share the variables:                               *)
(*   Spec      one call of one of the four coverage functions on inputs    *)
(*             drawn from a bounded set (the BFS runs iteration by         *)
(*             iteration);                                                 *)
(*   MainSpec  the __main__ flow of the coverage script: grid size, mouse  *)
(*             clicks, window closed, radius solved;                       *)
(*   PrimSpec  generate_graph followed by prim, pop by pop.                *)
(***************************************************************************)
EXTENDS Integers, Sequences, FiniteSets

VARIABLES
    rows, cols,          \* the grid
    police_stations,     \* sequence of <<py, px>>
    pc,                  \* position of the caller / of the running function
    call,                \* which function was called
    queue,               \* BFS queue: sequence of <<y, x, dist>>
    visited,             \* BFS visited matrix
    distance_map,        \* BFS distance matrix
    result,              \* what the call handed back
    enq, deq,            \* history: appends to / pops from the queue, per cell
    last_dist,           \* history: dist of the entry popped last
    num_nodes,           \* prim: number of nodes
    start_end_weights,   \* prim: the edge map (u, v) -> weight
    visited_nodes,       \* prim: set of visited nodes
    weight_heap,         \* prim: heap content, a set of <<weight, u, v>>
    min_node_weights,    \* prim: the tree, (u, v) -> weight
    popped               \* prim: the entry popped last, <<weight, u, v>>

gridVars == <<rows, cols, police_stations>>
bfsVars  == <<queue, visited, distance_map, enq, deq, last_dist>>
primVars == <<num_nodes, start_end_weights, visited_nodes, weight_heap,
              min_node_weights, popped>>
vars == <<rows, cols, police_stations, pc, call, queue, visited, distance_map,
          result, enq, deq, last_dist, num_nodes, start_end_weights,
          visited_nodes, weight_heap, min_node_weights, popped>>

---------------------------------------------------------------------------
(* Bounds of the model *)

\* largest number of rows / columns of a grid handed to a coverage function
MaxRows == 2
MaxCols == 3
\* longest station sequence handed to a coverage function
MaxStations == 2
\* points a KD-tree leaf holds before the build splits it
KdLeafSize == 1
\* largest grid side and number of clicks of the interactive flow
MainMaxRows == 4
MainMaxCols == 4
MaxClicks == 2
\* prim: number of nodes and largest edge weight
MaxNodes == 3
MaxWeight == 3

---------------------------------------------------------------------------
(* Values *)

\* float('inf'): larger than every distance of a bounded grid
Inf == 1000000

NoResult == [kind |-> "none"]
FieldResult(f) == [kind |-> "field", field |-> f]
RadiusResult(r) == [kind |-> "radius", radius |-> r]
ErrorResult(e) == [kind |-> "error", error |-> e]

\* a mutated abs: the difference taken as it is
AbsMissing(x) == x

Abs(x) == IF x < 0 THEN -x ELSE x
Max2(a, b) == IF a >= b THEN a ELSE b
Min2(a, b) == IF a <= b THEN a ELSE b

Cells(r, c) == (0 .. r - 1) \X (0 .. c - 1)

\* 0 <= py < rows and 0 <= px < cols
InGrid(r, c, py, px) == 0 <= py /\ py < r /\ 0 <= px /\ px < c

\* a mutated distance: the sum of the two differences
Manhattan(i, j, py, px) == Abs(i - py) + Abs(j - px)

\* max(abs(i - py), abs(j - px))
Chebyshev(i, j, py, px) == Max2(Abs(i - py), Abs(j - px))

\* the row-major order of "for i in range(rows): for j in range(cols)"
CellAt(c, k) == <<(k - 1) \div c, (k - 1) % c>>

\* all sequences over S of length 0 .. n
SeqsUpTo(S, n) == UNION {[1 .. m -> S] : m \in 0 .. n}

---------------------------------------------------------------------------
(* get_nearest_distance_to_police_stations_brutal_force *)

RECURSIVE BrutalForceLoop(_, _, _, _, _)
\* the for loop from station k on, with the running minimum
BrutalForceLoop(i, j, ps, k, distance) ==
    IF k > Len(ps) THEN distance
    ELSE BrutalForceLoop(i, j, ps, k + 1,
                         Min2(distance, Chebyshev(i, j, ps[k][1], ps[k][2])))

get_nearest_distance_to_police_stations_brutal_force(i, j, ps) ==
    BrutalForceLoop(i, j, ps, 1, Inf)

---------------------------------------------------------------------------
(* get_nearest_distance_to_police_stations_kd_tree: KDTree(police_stations) *)
(* and tree.query((i, j), p=np.inf).  The tree is a leaf (a list of points) *)
(* or an inner node splitting one coordinate.                               *)

\* KDTree([]) raises ValueError: the data is not of shape (n, m)
KDTreeRaises(data) == Len(data) = 0

CoordsOf(pts, d) == {pts[k][d] : k \in 1 .. Len(pts)}
SetMin(S) == CHOOSE x \in S : \A y \in S : x <= y
SetMax(S) == CHOOSE x \in S : \A y \in S : x >= y
Spread(pts, d) == SetMax(CoordsOf(pts, d)) - SetMin(CoordsOf(pts, d))

\* the coordinate of the point of rank Len(pts) \div 2 along d
MedianCoord(pts, d) ==
    CHOOSE v \in CoordsOf(pts, d) :
        /\ Cardinality({k \in 1 .. Len(pts) : pts[k][d] < v}) <= Len(pts) \div 2
        /\ Cardinality({k \in 1 .. Len(pts) : pts[k][d] <= v}) > Len(pts) \div 2

\* the split value: the median, moved up to the next coordinate when no
\* point is below the median
SplitCoord(pts, d) ==
    LET m == MedianCoord(pts, d)
    IN  IF \E k \in 1 .. Len(pts) : pts[k][d] < m THEN m
        ELSE SetMin({v \in CoordsOf(pts, d) : v > m})

RECURSIVE KdBuild(_)
KdBuild(pts) ==
    IF Len(pts) <= KdLeafSize THEN [leaf |-> TRUE, pts |-> pts]
    ELSE LET d == IF Spread(pts, 1) >= Spread(pts, 2) THEN 1 ELSE 2
         IN  IF Spread(pts, d) = 0 THEN [leaf |-> TRUE, pts |-> pts]
             ELSE LET split == SplitCoord(pts, d)
                  IN  [leaf    |-> FALSE,
                       dim     |-> d,
                       split   |-> split,
                       less    |-> KdBuild(SelectSeq(pts, LAMBDA q : q[d] < split)),
                       greater |-> KdBuild(SelectSeq(pts, LAMBDA q : q[d] >= split))]

\* the scan of a leaf
LeafNearest(pts, i, j, best) ==
    SetMin({best} \cup {Chebyshev(i, j, pts[k][1], pts[k][2]) : k \in 1 .. Len(pts)})

\* a mutated far-side test: the far side of a split is never searched
KdFarSideNever(x, split, best) == FALSE

\* whether the far side of the split can hold a point nearer than best
KdFarSideNeeded(x, split, best) == Abs(x - split) < best

RECURSIVE KdQuery(_, _, _, _)
\* nearest distance under the maximum norm, no worse than best
KdQuery(node, i, j, best) ==
    IF node.leaf THEN LeafNearest(node.pts, i, j, best)
    ELSE LET x    == IF node.dim = 1 THEN i ELSE j
             near == IF x < node.split THEN node.less ELSE node.greater
             far  == IF x < node.split THEN node.greater ELSE node.less
             b1   == KdQuery(near, i, j, best)
         IN  IF KdFarSideNeeded(x, node.split, b1)
             THEN KdQuery(far, i, j, b1) ELSE b1

\* defined when KDTree(ps) does not raise
get_nearest_distance_to_police_stations_kd_tree(i, j, ps) ==
    KdQuery(KdBuild(ps), i, j, Inf)

---------------------------------------------------------------------------
(* get_largest_nearest_distance_to_police_stations *)

RECURSIVE LargestLoop(_, _, _, _, _)
\* the two nested for loops from cell number k on (row-major order)
LargestLoop(r, c, ps, k, max_distance) ==
    IF k > r * c THEN max_distance
    ELSE LET cell == CellAt(c, k)
             distance == get_nearest_distance_to_police_stations_kd_tree(
                             cell[1], cell[2], ps)
         IN  LargestLoop(r, c, ps, k + 1, Max2(max_distance, distance))

\* the outcome of the call: the first query raises when KDTree(ps) raises
get_largest_nearest_distance_to_police_stations(r, c, ps) ==
    IF r * c > 0 /\ KDTreeRaises(ps) THEN ErrorResult("ValueError")
    ELSE RadiusResult(LargestLoop(r, c, ps, 1, 0))

---------------------------------------------------------------------------
(* get_nearest_distance_to_police_stations_bfs *)

\* directions, in the order the code lists them
directions == << <<-1, 0>>, <<1, 0>>, <<0, -1>>, <<0, 1>>,
                 <<-1, -1>>, <<-1, 1>>, <<1, -1>>, <<1, 1>> >>

ZeroCount(r, c) == [cell \in Cells(r, c) |-> 0]

\* np.full((rows, cols), 0), np.zeros((rows, cols), dtype=bool), []
BfsEmpty(r, c) ==
    [queue        |-> << >>,
     visited      |-> [cell \in Cells(r, c) |-> FALSE],
     distance_map |-> [cell \in Cells(r, c) |-> 0],
     enq          |-> ZeroCount(r, c)]

\* queue.append((y, x, dist)); visited[y, x] = True; distance_map[y, x] = dist
BfsMark(st, y, x, dist) ==
    [queue        |-> Append(st.queue, <<y, x, dist>>),
     visited      |-> [st.visited EXCEPT ![<<y, x>>] = TRUE],
     distance_map |-> [st.distance_map EXCEPT ![<<y, x>>] = dist],
     enq          |-> [st.enq EXCEPT ![<<y, x>>] = @ + 1]]

RECURSIVE BfsSeed(_, _, _, _, _)
\* the initialisation loop from station k on
BfsSeed(r, c, ps, k, st) ==
    IF k > Len(ps) THEN st
    ELSE IF InGrid(r, c, ps[k][1], ps[k][2])
         THEN BfsSeed(r, c, ps, k + 1, BfsMark(st, ps[k][1], ps[k][2], 0))
         ELSE BfsSeed(r, c, ps, k + 1, st)

\* a mutated pop: the queue used as a stack, queue.pop()
QueuePopLast(q) == <<q[Len(q)], SubSeq(q, 1, Len(q) - 1)>>

\* queue.pop(0): the entry taken and the queue left
QueuePop(q) == <<Head(q), Tail(q)>>

\* a mutated neighbour test: the visited test left out
NeighbourInGridOnly(r, c, st, ny, nx) == InGrid(r, c, ny, nx)

\* a mutated neighbour test: 0 < ny and 0 < nx in place of 0 <= ny, 0 <= nx
NeighbourOffByOne(r, c, st, ny, nx) ==
    0 < ny /\ ny < r /\ 0 < nx /\ nx < c /\ ~st.visited[<<ny, nx>>]

\* 0 <= ny < rows and 0 <= nx < cols and not visited[ny, nx]
NeighbourTaken(r, c, st, ny, nx) ==
    InGrid(r, c, ny, nx) /\ ~st.visited[<<ny, nx>>]

RECURSIVE BfsExpand(_, _, _, _, _, _, _)
\* the loop over directions from direction k on, for the popped (y, x, dist)
BfsExpand(r, c, y, x, dist, k, st) ==
    IF k > Len(directions) THEN st
    ELSE LET ny == y + directions[k][1]
             nx == x + directions[k][2]
         IN  IF NeighbourTaken(r, c, st, ny, nx)
             THEN BfsExpand(r, c, y, x, dist, k + 1, BfsMark(st, ny, nx, dist + 1))
             ELSE BfsExpand(r, c, y, x, dist, k + 1, st)

---------------------------------------------------------------------------
(* Spec: one call of a coverage function *)

\* station coordinates handed in: the cells of the grid and four places
\* outside it, one past each side
StationCoords(r, c) ==
    Cells(r, c) \cup {<<-1, 0>>, <<0, -1>>, <<r, c - 1>>, <<r - 1, c>>}

NoMap == << >>

PrimIdle ==
    /\ num_nodes = 0
    /\ start_end_weights = << >>
    /\ visited_nodes = {}
    /\ weight_heap = {}
    /\ min_node_weights = << >>
    /\ popped = << >>

BfsIdle ==
    /\ queue = << >>
    /\ visited = NoMap
    /\ distance_map = NoMap
    /\ enq = NoMap
    /\ deq = NoMap
    /\ last_dist = 0

Init ==
    /\ rows \in 1 .. MaxRows
    /\ cols \in 1 .. MaxCols
    /\ police_stations \in SeqsUpTo(StationCoords(rows, cols), MaxStations)
    /\ pc = "idle"
    /\ call = "none"
    /\ result = NoResult
    /\ BfsIdle
    /\ PrimIdle

\* get_nearest_distance_to_police_stations_brutal_force at every cell
BrutalForceField ==
    /\ pc = "idle"
    /\ call' = "brutal_force"
    /\ result' = FieldResult(
           [cell \in Cells(rows, cols) |->
               get_nearest_distance_to_police_stations_brutal_force(
                   cell[1], cell[2], police_stations)])
    /\ pc' = "returned"
    /\ UNCHANGED <<gridVars, bfsVars, primVars>>

\* get_nearest_distance_to_police_stations_kd_tree at every cell
KdTreeField ==
    /\ pc = "idle"
    /\ call' = "kd_tree"
    /\ IF KDTreeRaises(police_stations)
       THEN /\ result' = ErrorResult("ValueError")
            /\ pc' = "raised"
       ELSE /\ result' = FieldResult(
                   [cell \in Cells(rows, cols) |->
                       get_nearest_distance_to_police_stations_kd_tree(
                           cell[1], cell[2], police_stations)])
            /\ pc' = "returned"
    /\ UNCHANGED <<gridVars, bfsVars, primVars>>

\* get_largest_nearest_distance_to_police_stations
LargestCall ==
    /\ pc = "idle"
    /\ call' = "largest"
    /\ result' = get_largest_nearest_distance_to_police_stations(
                     rows, cols, police_stations)
    /\ pc' = IF result'.kind = "error" THEN "raised" ELSE "returned"
    /\ UNCHANGED <<gridVars, bfsVars, primVars>>

\* get_nearest_distance_to_police_stations_bfs, up to the while loop
BfsCall ==
    /\ pc = "idle"
    /\ call' = "bfs"
    /\ LET st == BfsSeed(rows, cols, police_stations, 1, BfsEmpty(rows, cols))
       IN  /\ queue' = st.queue
           /\ visited' = st.visited
           /\ distance_map' = st.distance_map
           /\ enq' = st.enq
    /\ deq' = ZeroCount(rows, cols)
    /\ last_dist' = 0
    /\ pc' = "bfs_loop"
    /\ UNCHANGED <<gridVars, result, primVars>>

\* one iteration of "while queue"
BfsIterate ==
    /\ pc = "bfs_loop"
    /\ queue # << >>
    /\ LET p    == QueuePop(queue)
           y    == p[1][1]
           x    == p[1][2]
           dist == p[1][3]
           st   == BfsExpand(rows, cols, y, x, dist, 1,
                             [queue        |-> p[2],
                              visited      |-> visited,
                              distance_map |-> distance_map,
                              enq          |-> enq])
       IN  /\ queue' = st.queue
           /\ visited' = st.visited
           /\ distance_map' = st.distance_map
           /\ enq' = st.enq
           /\ deq' = [deq EXCEPT ![<<y, x>>] = @ + 1]
           /\ last_dist' = dist
    /\ UNCHANGED <<gridVars, pc, call, result, primVars>>

\* the loop ends on the empty queue: return distance_map
BfsReturn ==
    /\ pc = "bfs_loop"
    /\ queue = << >>
    /\ result' = FieldResult(distance_map)
    /\ pc' = "returned"
    /\ UNCHANGED <<gridVars, call, bfsVars, primVars>>

Next ==
    \/ BrutalForceField
    \/ KdTreeField
    \/ LargestCall
    \/ BfsCall
    \/ BfsIterate
    \/ BfsReturn

Spec == Init /\ [][Next]_vars

---------------------------------------------------------------------------
(* Properties of the coverage functions *)

Range(f) == {f[k] : k \in DOMAIN f}

AllInGrid ==
    \A k \in 1 .. Len(police_stations) :
        InGrid(rows, cols, police_stations[k][1], police_stations[k][2])
SomeInGrid ==
    \E k \in 1 .. Len(police_stations) :
        InGrid(rows, cols, police_stations[k][1], police_stations[k][2])

\* the distance from (i, j) to the nearest of a non-empty set of stations
NearestOf(i, j, S) == SetMin({Chebyshev(i, j, s[1], s[2]) : s \in S})
Nearest(i, j) == NearestOf(i, j, Range(police_stations))
StationsInGrid == {s \in Range(police_stations) : InGrid(rows, cols, s[1], s[2])}

BrutalForceAt(cell) ==
    get_nearest_distance_to_police_stations_brutal_force(cell[1], cell[2], police_stations)
KdTreeAt(cell) ==
    get_nearest_distance_to_police_stations_kd_tree(cell[1], cell[2], police_stations)

\* what a returned call says every strategy must say too
Agreement ==
    /\ result.kind = "field" =>
          /\ \A cell \in Cells(rows, cols) :
                /\ result.field[cell] = BrutalForceAt(cell)
                /\ result.field[cell] = KdTreeAt(cell)
          /\ RadiusResult(SetMax(Range(result.field))) =
                get_largest_nearest_distance_to_police_stations(
                    rows, cols, police_stations)
    /\ result.kind = "radius" =>
          result.radius = SetMax({BrutalForceAt(cell) : cell \in Cells(rows, cols)})

\* C1 (as stated): for every non-empty station sequence the brute-force scan,
\* the flood fill and the KD-tree query return the same distance at every
\* cell, and so the same maximum.
C1_AgreementAnyStations ==
    (pc = "returned" /\ police_stations # << >>) => Agreement

\* C1 (amended): the three strategies return the same distance at every cell,
\* and the same maximum, for every non-empty station sequence whose stations
\* all lie inside the grid.
C1_AgreementInGrid ==
    (pc = "returned" /\ police_stations # << >> /\ AllInGrid) => Agreement

C1_Witness ==
    /\ pc = "returned" /\ call = "bfs" /\ AllInGrid
    /\ Len(police_stations) = 2 /\ police_stations[1] # police_stations[2]
    /\ \E cell \in Cells(rows, cols) : result.field[cell] >= 1

\* C2: the radius returned is tight: every cell is within it of its nearest
\* station, and some cell is at exactly that distance.
C2_Tight ==
    (pc = "returned" /\ call = "largest") =>
        /\ \A cell \in Cells(rows, cols) : Nearest(cell[1], cell[2]) <= result.radius
        /\ \E cell \in Cells(rows, cols) : Nearest(cell[1], cell[2]) = result.radius

C2_Witness ==
    /\ pc = "returned" /\ call = "largest" /\ result.radius >= 2
    /\ Len(police_stations) = 2 /\ ~AllInGrid

RemoveAt(seq, k) == SubSeq(seq, 1, k - 1) \o SubSeq(seq, k + 1, Len(seq))
RadiusOf(ps) == get_largest_nearest_distance_to_police_stations(rows, cols, ps).radius

\* C3: the radius never grows when a station is added and never shrinks when
\* one is removed (the sequence staying non-empty and within MaxStations).
C3_Monotone ==
    (pc = "returned" /\ call = "largest") =>
        /\ Len(police_stations) < MaxStations =>
              \A s \in StationCoords(rows, cols) :
                  RadiusOf(Append(police_stations, s)) <= result.radius
        /\ Len(police_stations) > 1 =>
              \A k \in 1 .. Len(police_stations) :
                  RadiusOf(RemoveAt(police_stations, k)) >= result.radius

C3_Witness ==
    /\ pc = "returned" /\ call = "largest" /\ Len(police_stations) = 2
    /\ RadiusOf(RemoveAt(police_stations, 1)) > result.radius

\* C4: with an empty station sequence every strategy and the radius solver
\* end in an error, and hand back no distance, field or radius.
C4_EmptyRejected ==
    (police_stations = << >> /\ call # "none") =>
        /\ pc \in {"raised", "returned"} => pc = "raised" /\ result.kind = "error"
        /\ pc # "bfs_loop"

\* C10: the flood fill with stations none of which lies inside the grid ends
\* in an error and returns no field; stations outside the grid never enter
\* the queue or the visited matrix.
C10_NoSourceFails ==
    (call = "bfs" /\ police_stations # << >> /\ ~SomeInGrid) =>
        /\ pc = "returned" => result.kind = "error"
        /\ \A k \in 1 .. Len(queue) : InGrid(rows, cols, queue[k][1], queue[k][2])

Occurrences(cell) ==
    Cardinality({k \in 1 .. Len(police_stations) : police_stations[k] = cell})

\* C7 (as stated): with a station inside the grid, duplicates allowed, every
\* cell is appended to the queue exactly once and popped exactly once.
C7_OnceEach ==
    (call = "bfs" /\ SomeInGrid) =>
        /\ \A cell \in Cells(rows, cols) : enq[cell] <= 1 /\ deq[cell] <= enq[cell]
        /\ pc = "returned" =>
              \A cell \in Cells(rows, cols) : enq[cell] = 1 /\ deq[cell] = 1

\* C7 (amended): with a station inside the grid, a cell that holds no station
\* is appended once and popped once, and a cell that holds stations is
\* appended and popped once per occurrence in the station sequence (all by
\* the initialisation loop); the while loop never appends a visited cell.
C7_OncePerOccurrence ==
    (call = "bfs" /\ SomeInGrid) =>
        /\ \A cell \in Cells(rows, cols) :
              /\ enq[cell] <= Max2(1, Occurrences(cell))
              /\ deq[cell] <= enq[cell]
              /\ visited[cell] <=> enq[cell] >= 1
        /\ pc = "returned" =>
              \A cell \in Cells(rows, cols) :
                  /\ enq[cell] = Max2(1, Occurrences(cell))
                  /\ deq[cell] = enq[cell]

C7_Witness ==
    /\ call = "bfs" /\ pc = "returned"
    /\ \E cell \in Cells(rows, cols) : enq[cell] = 2 /\ deq[cell] = 2
    /\ \E cell \in Cells(rows, cols) : Occurrences(cell) = 0 /\ deq[cell] = 1

\* C8: a cell found at depth k holds distance k, and the queue holds
\* non-decreasing distances, front and back at most 1 apart, none below the
\* distance popped last: layer k is popped before layer k + 1.
C8_Layers ==
    call = "bfs" =>
        /\ \A k \in 1 .. Len(queue) - 1 : queue[k][3] <= queue[k + 1][3]
        /\ queue # << >> =>
              /\ queue[Len(queue)][3] - queue[1][3] <= 1
              /\ last_dist <= queue[1][3]
              /\ queue[Len(queue)][3] <= last_dist + 1
        /\ \A k \in 1 .. Len(queue) :
              distance_map[<<queue[k][1], queue[k][2]>>] = queue[k][3]
        /\ \A cell \in Cells(rows, cols) :
              visited[cell] =>
                  distance_map[cell] = NearestOf(cell[1], cell[2], StationsInGrid)

C8_Witness ==
    /\ call = "bfs" /\ pc = "bfs_loop" /\ Len(queue) >= 2
    /\ queue[1][3] = 1 /\ queue[Len(queue)][3] = 2

AllVisited == \A cell \in Cells(rows, cols) : visited[cell]

\* what the while loop still has to do: the entries to pop, and for every
\* cell not yet visited its append and its pop
BfsMeasure ==
    Len(queue) + 2 * Cardinality({cell \in Cells(rows, cols) : ~visited[cell]})

\* C9: with a station inside the grid the while loop comes to its end: every
\* step of the loop on a non-empty queue is an iteration that lowers
\* BfsMeasure, which is never negative, and the step on the empty queue is
\* the return; whenever the queue is empty every cell is visited and holds
\* its distance, and that field is what is returned.
C9_Terminates ==
    /\ []((call = "bfs" /\ SomeInGrid) =>
             /\ queue = << >> =>
                   /\ AllVisited
                   /\ \A cell \in Cells(rows, cols) :
                         distance_map[cell] =
                             NearestOf(cell[1], cell[2], StationsInGrid)
             /\ pc = "returned" =>
                   queue = << >> /\ result = FieldResult(distance_map))
    /\ [][(pc = "bfs_loop" /\ SomeInGrid) =>
             \/ queue # << >> /\ pc' = "bfs_loop" /\ BfsMeasure' < BfsMeasure
             \/ queue = << >> /\ pc' = "returned"]_vars

C9_Witness ==
    /\ call = "bfs" /\ pc = "returned" /\ SomeInGrid /\ AllVisited
    /\ \E cell \in Cells(rows, cols) : distance_map[cell] >= 1

---------------------------------------------------------------------------
(* MainSpec: the __main__ flow of the coverage script *)

\* rows and cols as typed in; no station placed yet
MainInit ==
    /\ rows \in 1 .. MainMaxRows
    /\ cols \in 1 .. MainMaxCols
    /\ police_stations = << >>
    /\ pc = "placing"
    /\ call = "none"
    /\ result = NoResult
    /\ BfsIdle
    /\ PrimIdle

\* a mouse click inside the axes, whose limits are 0 .. cols and 0 .. rows
onclick(x, y) ==
    /\ pc = "placing"
    /\ Len(police_stations) < MaxClicks
    /\ police_stations' =
           IF 0 <= x /\ x < cols /\ 0 <= y /\ y < rows
           THEN Append(police_stations, <<y, x>>)
           ELSE police_stations
    /\ UNCHANGED <<rows, cols, pc, call, result, bfsVars, primVars>>

\* the window is closed: get_police_positions returns police_positions
CloseWindow ==
    /\ pc = "placing"
    /\ pc' = "closed"
    /\ UNCHANGED <<gridVars, call, result, bfsVars, primVars>>

\* smallest_radius = get_largest_nearest_distance_to_police_stations(...)
MainSolve ==
    /\ pc = "closed"
    /\ call' = "largest"
    /\ result' = get_largest_nearest_distance_to_police_stations(
                     rows, cols, police_stations)
    /\ pc' = IF result'.kind = "error" THEN "raised" ELSE "showing"
    /\ UNCHANGED <<gridVars, bfsVars, primVars>>

MainNext ==
    \/ \E x \in 0 .. cols, y \in 0 .. rows : onclick(x, y)
    \/ CloseWindow
    \/ MainSolve

MainSpec == MainInit /\ [][MainNext]_vars

ScenarioStations == << <<0, 0>>, <<3, 3>> >>
Scenario ==
    /\ pc = "showing" /\ rows = 4 /\ cols = 4
    /\ police_stations = ScenarioStations

\* C5 (as stated): on the 4x4 grid with stations at (0,0) and (3,3) the
\* radius computed is 2.
C5_RadiusTwo == Scenario => result = RadiusResult(2)

\* C5 (amended): on the 4x4 grid with stations at (0,0) and (3,3) the radius
\* computed is 3, the distance of the cells (0,3) and (3,0) from both stations.
C5_RadiusThree ==
    Scenario =>
        /\ result = RadiusResult(3)
        /\ Nearest(0, 3) = 3 /\ Nearest(3, 0) = 3

C5_Witness == Scenario /\ result.kind = "radius"

---------------------------------------------------------------------------
(* PrimSpec: generate_graph, then prim *)

Nodes(n) == 0 .. n - 1
\* the pairs "for i in range(num_nodes): for j in range(i + 1, num_nodes)"
Pairs(n) == {e \in Nodes(n) \X Nodes(n) : e[1] < e[2]}

\* the edge map of one outcome g of the random draws: g[e] = 0 leaves the
\* pair out, another value is its weight, stored in both directions
EdgeMap(n, g) ==
    [e \in {d \in Nodes(n) \X Nodes(n) :
               \/ d[1] < d[2] /\ g[d] # 0
               \/ d[2] < d[1] /\ g[<<d[2], d[1]>>] # 0}
        |-> IF e[1] < e[2] THEN g[e] ELSE g[<<e[2], e[1]>>]]

\* the edge maps generate_graph(n) can return, weights up to MaxWeight
generate_graph(n) == {EdgeMap(n, g) : g \in [Pairs(n) -> 0 .. MaxWeight]}

PrimInit ==
    /\ num_nodes \in 1 .. MaxNodes
    /\ start_end_weights \in generate_graph(num_nodes)
    /\ visited_nodes = {}
    /\ weight_heap = {}
    /\ min_node_weights = << >>
    /\ popped = << >>
    /\ pc = "idle"
    /\ call = "none"
    /\ result = NoResult
    /\ rows = 0 /\ cols = 0 /\ police_stations = << >>
    /\ BfsIdle

\* the order of the heap entries (weight, (u, v))
EntryLeq(e, f) ==
    \/ e[1] < f[1]
    \/ e[1] = f[1] /\ e[2] < f[2]
    \/ e[1] = f[1] /\ e[2] = f[2] /\ e[3] <= f[3]

\* a mutated heap: the largest entry comes out first
HeapLargest(h) == CHOOSE e \in h : \A f \in h : EntryLeq(f, e)

\* the entry heapq.heappop returns
HeapSmallest(h) == CHOOSE e \in h : \A f \in h : EntryLeq(e, f)

\* the entries pushed for the edges leaving node a to nodes outside seen
EdgesFrom(a, seen) ==
    {<<start_end_weights[e], e[1], e[2]>> :
        e \in {d \in DOMAIN start_end_weights : d[1] = a /\ d[2] \notin seen}}

\* prim is entered: node 0 visited, its edges pushed
PrimStart ==
    /\ pc = "idle"
    /\ call' = "prim"
    /\ visited_nodes' = {0}
    /\ weight_heap' = EdgesFrom(0, {})
    /\ min_node_weights' = << >>
    /\ pc' = "prim_outer"
    /\ UNCHANGED <<gridVars, bfsVars, result, num_nodes, start_end_weights, popped>>

\* while len(visited_nodes) < num_nodes
PrimOuter ==
    /\ pc = "prim_outer"
    /\ IF Cardinality(visited_nodes) < num_nodes
       THEN /\ pc' = "prim_pop"
            /\ UNCHANGED result
       ELSE /\ pc' = "returned"
            /\ result' = [kind |-> "tree", tree |-> min_node_weights]
    /\ UNCHANGED <<gridVars, bfsVars, call, primVars>>

\* one iteration of "while weight_heap": pop, break on an unvisited node
PrimPop ==
    /\ pc = "prim_pop"
    /\ weight_heap # {}
    /\ LET e == HeapSmallest(weight_heap)
       IN  /\ popped' = e
           /\ weight_heap' = weight_heap \ {e}
           /\ pc' = IF e[3] \notin visited_nodes THEN "prim_add" ELSE "prim_pop"
    /\ UNCHANGED <<gridVars, bfsVars, call, result, num_nodes, start_end_weights,
                   visited_nodes, min_node_weights>>

\* the else of "while weight_heap": the heap ran empty without a break
PrimRaise ==
    /\ pc = "prim_pop"
    /\ weight_heap = {}
    /\ pc' = "raised"
    /\ result' = ErrorResult("ValueError")
    /\ UNCHANGED <<gridVars, bfsVars, call, primVars>>

\* the node and the edge are added, the edges of the new node pushed
PrimAdd ==
    /\ pc = "prim_add"
    /\ LET min_weight == popped[1]
           u == popped[2]
           v == popped[3]
       IN  /\ visited_nodes' = visited_nodes \cup {v}
           /\ min_node_weights' =
                  [e \in DOMAIN min_node_weights \cup {<<u, v>>} |->
                      IF e = <<u, v>> THEN min_weight ELSE min_node_weights[e]]
           /\ weight_heap' = weight_heap \cup EdgesFrom(v, visited_nodes \cup {v})
    /\ pc' = "prim_outer"
    /\ UNCHANGED <<gridVars, bfsVars, call, result, num_nodes, start_end_weights,
                   popped>>

PrimNext ==
    \/ PrimStart
    \/ PrimOuter
    \/ PrimPop
    \/ PrimRaise
    \/ PrimAdd

PrimSpec == PrimInit /\ [][PrimNext]_vars

---------------------------------------------------------------------------
(* Properties of prim *)

\* the nodes joined to those of S by the undirected edges E, S included
RECURSIVE ReachedFrom(_, _)
ReachedFrom(S, E) ==
    LET T == S \cup {e[2] : e \in {d \in E : d[1] \in S}}
              \cup {e[1] : e \in {d \in E : d[2] \in S}}
    IN  IF T = S THEN S ELSE ReachedFrom(T, E)

\* the edges E join all the nodes
Connects(E) == ReachedFrom({0}, E) = Nodes(num_nodes)

GraphEdges == {e \in DOMAIN start_end_weights : e[1] < e[2]}

RECURSIVE TotalWeight(_)
TotalWeight(E) ==
    IF E = {} THEN 0
    ELSE LET e == CHOOSE d \in E : TRUE
         IN  start_end_weights[e] + TotalWeight(E \ {e})

\* the spanning trees of the graph: num_nodes - 1 edges joining all the nodes
SpanningTrees ==
    {T \in SUBSET GraphEdges : Cardinality(T) = num_nodes - 1 /\ Connects(T)}

\* the tree prim returned, each edge written smaller node first
Undirected(E) == {IF e[1] < e[2] THEN e ELSE <<e[2], e[1]>> : e \in E}
TreeEdges == Undirected(DOMAIN result.tree)

====
